---- MODULE Spec2Model ----
(***************************************************************************)
(* Model of the SDK span (src/src/sdk/trace/span.rs) and of the export     *)
(* data it hands to the span processors (src/src/exporter/trace/mod.rs).   *)
(*                                                                         *)
(* A Span is a handle (Arc) on a SpanInner.  Handles are cloned, moved to  *)
(* other threads and dropped; the drop of the last handle runs             *)
(* SpanInner::drop on the dropping thread, which takes the SpanData out of *)
(* its mutex, fixes its end time and passes it to every span processor of  *)
(* the provider.                                                           *)
(*                                                                         *)
(* Option values are sequences: None == <<>>, Some(x) == <<x>>.            *)
(***************************************************************************)
EXTENDS Integers, Sequences, FiniteSets, TLC

VARIABLES
    data,           \* data[s]   : SpanInner.data, Option<Mutex<Option<SpanData>>>
    lock,           \* lock[s]   : the thread that holds the mutex of data[s]
    held,           \* held[t][s]: number of Span handles of s owned by thread t
    state,          \* state[s]  : "Live" until SpanInner::drop has run, then "Finalized"
    mutated,        \* mutated[s]: a mutating operation has been called on a handle of s
    pc,             \* pc[t]     : what thread t is in the middle of
    cur,            \* cur[t]    : the span thread t is operating on
    arg,            \* arg[t]    : the (code, message) of the set_status in progress
    local,          \* local[t]  : drop's local span_data, Option<SpanData>
    iter,           \* iter[t]   : drop's iterator, the processors not yet visited
    proc,           \* proc[t]   : the processor whose on_end thread t is inside
    providerAlive,  \* the TracerProvider still exists (tracer.provider() is Some)
    processors,     \* the provider's span processors, in order
    log,            \* on_end calls and returns, in the order they happened
    created,        \* created[s]: the Option<SpanData> that Span::new was given
    ended,          \* ended[s]  : the timestamp of the last end_with_timestamp call
    fin,            \* fin[s]    : what SpanInner::drop found when it ran
    last,           \* last[s]   : the arguments of the last update_name, set_status
                    \*             and, per key, set_attribute called on s
    chain0,         \* the provider's span processors when the spans were created
    sends           \* the HttpClient::send calls made, with their results

vars == <<data, lock, held, state, mutated, pc, cur, arg, local, iter, proc,
          providerAlive, processors, log, created, ended, fin, last, chain0,
          sends>>

----------------------------------------------------------------------------
(* Bounds *)

MaxTime == 1
MaxHandles == 2
MaxProcs == 2
MaxEvents == 1
MaxAttrs == 1
MaxSends == 2

(* Small universes for the inputs *)

Threads == {"t1", "t2"}
Spans == {"s1"}
AllSpans == {"s1", "s2"}
NoThread == "none"
NoSpan == "none"
NoProc == 0
Times == 0 .. MaxTime
Procs == 1 .. MaxProcs
Names == {"new_name"}
AllNames == {"opentelemetry", "new_name"}
StatusCodes == {"Unset", "Ok", "Error"}
StatusArgs == {<<"Ok", "OK">>, <<"Error", "ERROR">>}
Keys == {"k"}
AllKeys == {"k", "j"}
Values == {"v", "w"}
EventNames == {"some_event"}
EventTimes == {MaxTime}

None == <<>>
Some(x) == <<x>>
IsSome(o) == o # <<>>
Unwrap(o) == o[1]

----------------------------------------------------------------------------
(* SpanData *)

\* SpanContext::new(trace_id, span_id, trace_flags, is_remote, trace_state)
SpanContextNew(trace_id, span_id, trace_flags, is_remote, trace_state) ==
    [ trace_id |-> trace_id, span_id |-> span_id, trace_flags |-> trace_flags,
      is_remote |-> is_remote, trace_state |-> trace_state ]

\* the SpanContext of a span without data: TraceId::invalid(),
\* SpanId::invalid(), no flag, not remote, TraceState::default()
InvalidSpanContext == SpanContextNew(0, 0, 0, FALSE, "")

\* the SpanContext of the tests' init(): TraceId::from_u128(0),
\* SpanId::from_u64(0), TRACE_FLAG_NOT_SAMPLED, not remote,
\* TraceState::default()
TestSpanContext == SpanContextNew(0, 0, 0, FALSE, "")

\* a SpanContext with a valid trace id and span id
ValidSpanContext == SpanContextNew(7, 99, 0, FALSE, "")

\* the SpanContexts a span is created with
SpanContexts == {TestSpanContext, ValidSpanContext}

\* the SpanData a span is created with: every start and end time, the other
\* fields as the tests' init() sets them
InitialSpanData(start, end) ==
    [ span_context        |-> TestSpanContext,
      parent_span_id      |-> 0,
      span_kind           |-> "Internal",
      name                |-> "opentelemetry",
      start_time          |-> start,
      end_time            |-> end,
      attributes          |-> <<>>,
      message_events      |-> <<>>,
      links               |-> <<>>,
      status_code         |-> "Unset",
      status_message      |-> "",
      resource            |-> "resource",
      instrumentation_lib |-> "opentelemetry" ]

\* the SpanData of init() with another SpanContext
SpanDataOf(span_context, start, end) ==
    [InitialSpanData(start, end) EXCEPT !.span_context = span_context]

\* Event::new(name, timestamp, attributes)
Event(name, timestamp, attributes) ==
    [name |-> name, timestamp |-> timestamp, attributes |-> attributes]

\* EvictedQueue::push_back: the queue keeps at most its capacity, the oldest
\* item leaves first
PushBack(queue, item) ==
    LET q == Append(queue, item)
    IN  IF Len(q) > MaxEvents THEN Tail(q) ELSE q

\* EvictedHashMap::insert: one entry per key, a re-inserted key is the newest,
\* the oldest entry leaves when the capacity is exceeded
Insert(map, kv) ==
    LET others == SelectSeq(map, LAMBDA e : e[1] # kv[1])
        m == Append(others, kv)
    IN  IF Len(m) > MaxAttrs THEN Tail(m) ELSE m

----------------------------------------------------------------------------
(* Handles *)

RECURSIVE SumHeld(_, _)
SumHeld(ts, s) ==
    IF ts = {} THEN 0
    ELSE LET t == CHOOSE x \in ts : TRUE
         IN  held[t][s] + SumHeld(ts \ {t}, s)

\* the strong count of the Arc<SpanInner> of span s
StrongCount(s) == SumHeld(Threads, s)

\* an is_recording that turns false once the span was ended
IsRecording_UntilEnded(s) == IsSome(data[s]) /\ ~IsSome(ended[s])

\* Span::is_recording
IsRecording(s) == IsSome(data[s])

\* Span::with_data: None for a span without data, else f of the data
WithData(s, f(_)) ==
    IF IsSome(data[s]) /\ IsSome(Unwrap(data[s]))
    THEN Some(f(Unwrap(Unwrap(data[s]))))
    ELSE None

\* a span_context that always takes the fallback
SpanContext_AlwaysInvalid(s) == InvalidSpanContext

\* Span::span_context
SpanContext(s) ==
    LET r == WithData(s, LAMBDA d : d.span_context)
    IN  IF IsSome(r) THEN Unwrap(r) ELSE InvalidSpanContext

\* a with_data_mut that makes up default data for a span without data
DataMut_OrDefault(s) ==
    IF IsSome(data[s]) /\ IsSome(Unwrap(data[s]))
    THEN Unwrap(data[s])
    ELSE Some(InitialSpanData(0, 0))

\* the &mut SpanData that with_data_mut passes to its closure:
\* self.inner.data.as_ref(), then lock(), then span_data.as_mut()
DataMut(s) ==
    IF IsSome(data[s]) /\ IsSome(Unwrap(data[s]))
    THEN Unwrap(data[s])
    ELSE None

\* Span::with_data_mut: the new value of SpanInner.data after f ran on the
\* data under the lock; unchanged for a span without data
WithDataMut(s, f(_)) ==
    IF IsSome(DataMut(s))
    THEN Some(Some(f(Unwrap(DataMut(s)))))
    ELSE data[s]

\* a with_data_mut that does not wait for the mutex
CanLock_NoMutex(s) == TRUE

\* one mutex for the data of all spans
CanLock_ProcessWide(s) == \A o \in AllSpans : lock[o] = NoThread

\* the mutex of a span with data must be free to be locked; a span without
\* data has no mutex and never waits
CanLock(s) == IsSome(data[s]) => lock[s] = NoThread

Idle(t) == pc[t] = "idle"

----------------------------------------------------------------------------
(* Construction *)

TypeOK ==
    /\ \A s \in AllSpans : lock[s] \in Threads \cup {NoThread}
    /\ \A t \in Threads : \A s \in AllSpans : held[t][s] \in 0 .. MaxHandles
    /\ \A s \in AllSpans : state[s] \in {"Live", "Finalized"}
    /\ \A t \in Threads : pc[t] \in {"idle", "set_status", "loop", "on_end"}
    /\ providerAlive \in BOOLEAN

\* nothing has been called yet: no lock held, every thread idle, nothing
\* exported or sent
InitRest ==
    /\ data = [s \in AllSpans |->
                 IF IsSome(created[s]) THEN Some(created[s]) ELSE None]
    /\ lock = [s \in AllSpans |-> NoThread]
    /\ state = [s \in AllSpans |-> "Live"]
    /\ mutated = [s \in AllSpans |-> FALSE]
    /\ pc = [t \in Threads |-> "idle"]
    /\ cur = [t \in Threads |-> NoSpan]
    /\ arg = [t \in Threads |-> <<"Unset", "">>]
    /\ local = [t \in Threads |-> None]
    /\ iter = [t \in Threads |-> <<>>]
    /\ proc = [t \in Threads |-> NoProc]
    /\ providerAlive = TRUE
    /\ chain0 = processors
    /\ log = <<>>
    /\ ended = [s \in AllSpans |-> None]
    /\ fin = [s \in AllSpans |-> None]
    /\ last = [s \in AllSpans |->
                 [name |-> None, status |-> None, attrs |-> [k \in AllKeys |-> None]]]
    /\ sends = <<>>

\* Span::new(id, data, tracer): one handle, owned by the creating thread
Init ==
    /\ \E recording \in BOOLEAN, start \in Times, end \in Times :
          created = [s \in AllSpans |->
                       IF recording /\ s \in Spans
                       THEN Some(InitialSpanData(start, end))
                       ELSE None]
    /\ held = [t \in Threads |->
                 [s \in AllSpans |-> IF t = "t1" /\ s \in Spans THEN 1 ELSE 0]]
    /\ \E n \in 0 .. MaxProcs : processors = [i \in 1 .. n |-> i]
    /\ InitRest

----------------------------------------------------------------------------
(* The operations of a Span handle.  Thread t calls them on a handle of s  *)
(* that it owns.  with_data_mut locks the mutex, applies the closure and   *)
(* unlocks; set_status writes two fields under the lock and is split in    *)
(* two steps, the others write one field and are one step.                 *)

CanCall(t, s) == Idle(t) /\ held[t][s] > 0 /\ CanLock(s)

(* The closures the operations pass to with_data_mut *)

\* data.message_events.push_back(Event::new(name, timestamp, attributes))
PushEvent(d, name, timestamp, attributes) ==
    [d EXCEPT !.message_events = PushBack(@, Event(name, timestamp, attributes))]

\* data.attributes.insert(attribute)
InsertAttribute(d, attribute) ==
    [d EXCEPT !.attributes = Insert(@, attribute)]

\* data.status_code = code
WriteStatusCode(d, code) == [d EXCEPT !.status_code = code]

\* data.status_message = message
WriteStatusMessage(d, message) == [d EXCEPT !.status_message = message]

\* an update_name that leaves the name as it is
WriteName_Ignored(d, new_name) == d

\* data.name = new_name
WriteName(d, new_name) == [d EXCEPT !.name = new_name]

\* an end_with_timestamp that moves the start time as well
WriteEndTime_AlsoStart(d, timestamp) ==
    [d EXCEPT !.end_time = timestamp, !.start_time = timestamp]

\* data.end_time = timestamp
WriteEndTime(d, timestamp) == [d EXCEPT !.end_time = timestamp]

\* what a mutating call leaves alone
MutationFrame ==
    UNCHANGED <<lock, held, state, pc, cur, arg, local, iter, proc,
                providerAlive, processors, log, created, chain0, sends, fin>>

\* Span::add_event_with_timestamp
AddEventWithTimestamp(t, s, name, timestamp, attributes) ==
    /\ CanCall(t, s)
    /\ data' = [data EXCEPT ![s] = WithDataMut(s, LAMBDA d :
                  PushEvent(d, name, timestamp, attributes))]
    /\ mutated' = [mutated EXCEPT ![s] = TRUE]
    /\ UNCHANGED <<ended, last>>
    /\ MutationFrame

\* Span::set_attribute
SetAttribute(t, s, attribute) ==
    /\ CanCall(t, s)
    /\ data' = [data EXCEPT ![s] = WithDataMut(s, LAMBDA d :
                  InsertAttribute(d, attribute))]
    /\ mutated' = [mutated EXCEPT ![s] = TRUE]
    /\ last' = [last EXCEPT ![s].attrs[attribute[1]] = Some(attribute[2])]
    /\ UNCHANGED ended
    /\ MutationFrame

\* Span::set_status, first half: lock, data.status_code = code
SetStatus(t, s, code, message) ==
    /\ CanCall(t, s)
    /\ data' = [data EXCEPT ![s] = WithDataMut(s, LAMBDA d :
                  WriteStatusCode(d, code))]
    /\ mutated' = [mutated EXCEPT ![s] = TRUE]
    /\ IF IsSome(data[s])
       THEN /\ lock' = [lock EXCEPT ![s] = t]
            /\ pc' = [pc EXCEPT ![t] = "set_status"]
            /\ cur' = [cur EXCEPT ![t] = s]
            /\ arg' = [arg EXCEPT ![t] = <<code, message>>]
       ELSE UNCHANGED <<lock, pc, cur, arg>>
    /\ last' = [last EXCEPT ![s].status = Some(<<code, message>>)]
    /\ UNCHANGED <<held, state, local, iter, proc, providerAlive, processors, log,
                   created, chain0, sends, ended, fin>>

\* Span::set_status, second half: data.status_message = message, unlock
SetStatusMessage(t) ==
    /\ pc[t] = "set_status"
    /\ data' = [data EXCEPT ![cur[t]] = WithDataMut(cur[t], LAMBDA d :
                  WriteStatusMessage(d, arg[t][2]))]
    /\ lock' = [lock EXCEPT ![cur[t]] = NoThread]
    /\ pc' = [pc EXCEPT ![t] = "idle"]
    /\ cur' = [cur EXCEPT ![t] = NoSpan]
    /\ arg' = [arg EXCEPT ![t] = <<"Unset", "">>]
    /\ UNCHANGED <<held, state, mutated, local, iter, proc, providerAlive,
                   processors, log, created, chain0, sends, last, ended, fin>>

\* Span::update_name
UpdateName(t, s, new_name) ==
    /\ CanCall(t, s)
    /\ data' = [data EXCEPT ![s] = WithDataMut(s, LAMBDA d :
                  WriteName(d, new_name))]
    /\ mutated' = [mutated EXCEPT ![s] = TRUE]
    /\ last' = [last EXCEPT ![s].name = Some(new_name)]
    /\ UNCHANGED ended
    /\ MutationFrame

\* Span::end_with_timestamp
EndWithTimestamp(t, s, timestamp) ==
    /\ CanCall(t, s)
    /\ data' = [data EXCEPT ![s] = WithDataMut(s, LAMBDA d :
                  WriteEndTime(d, timestamp))]
    /\ mutated' = [mutated EXCEPT ![s] = TRUE]
    /\ ended' = [ended EXCEPT ![s] = Some(timestamp)]
    /\ UNCHANGED last
    /\ MutationFrame

\* Span::clone: thread t clones a handle of s and gives the clone to thread u
SpanClone(t, s, u) ==
    /\ Idle(t)
    /\ held[t][s] > 0
    /\ StrongCount(s) < MaxHandles
    /\ held' = [held EXCEPT ![u][s] = @ + 1]
    /\ UNCHANGED <<data, lock, state, mutated, pc, cur, arg, local, iter, proc,
                   providerAlive, processors, log, created, chain0, sends, last, ended, fin>>

----------------------------------------------------------------------------
(* The drop of a handle, and SpanInner::drop                               *)

\* an Arc that drops its value one reference too early
IsLastHandle_OffByOne(s) == StrongCount(s) = 2

\* a drop that exports at the drop of every handle
IsLastHandle_Always(s) == TRUE

\* Arc<SpanInner>: the handle being dropped is the last one of its SpanInner,
\* so that SpanInner::drop runs
IsLastHandle(s) == StrongCount(s) = 1

\* a drop that reads the slot without taking it
TakeSlot_Keep(slot) == slot

\* self.data.take(): what is left in SpanInner.data
TakeSlot(slot) == None

\* Tracer::provider(): the provider's processors while the provider exists
Provider == IF providerAlive THEN Some(processors) ELSE None

\* the end time is never fixed
SetEndTime_Never(d, now) == d

\* only an end time before the start is fixed, an end time equal to it is kept
SetEndTime_Strict(d, now) ==
    IF d.end_time < d.start_time THEN [d EXCEPT !.end_time = now] ELSE d

\* the end time is always the time of the drop
SetEndTime_Always(d, now) == [d EXCEPT !.end_time = now]

\* "Set end time if unset or invalid"
SetEndTime(d, now) ==
    IF d.end_time <= d.start_time THEN [d EXCEPT !.end_time = now] ELSE d

\* a clone that makes a new, empty event queue instead of copying the events
CloneSpanData_EmptyEvents(span_data) ==
    IF IsSome(span_data)
    THEN Some([Unwrap(span_data) EXCEPT !.message_events = <<>>])
    ELSE None

\* Option<SpanData>::clone (derived): a copy equal in every field
CloneSpanData(span_data) == span_data

\* the span_data handed to the processor at the head of the iterator: the
\* data itself for the last processor (span_data.take()), a clone otherwise
NextSpanData(span_data, rest) ==
    IF rest = <<>> THEN span_data ELSE CloneSpanData(span_data)

\* the data is moved to the first processor instead of the last
RemainingSpanData_TakeFirst(span_data, rest) == None

\* what is left in drop's span_data after that
RemainingSpanData(span_data, rest) ==
    IF rest = <<>> THEN None ELSE span_data

\* the processors are those the provider had when the span was created
SpanProcessors_AtCreation(slot, provider) ==
    IF IsSome(slot) /\ IsSome(provider) THEN Some(chain0) ELSE None

\* the processors are used without asking whether the provider still exists
SpanProcessors_Unchecked(slot, provider) ==
    IF IsSome(slot) THEN Some(processors) ELSE None

\* the processors drop iterates over: those of the provider, when the span
\* has data and the provider still exists; None when drop has nothing to do
SpanProcessors(slot, provider) ==
    IF IsSome(slot) /\ IsSome(provider) THEN Some(Unwrap(provider)) ELSE None

\* SpanInner::drop up to the creation of the iterator, run by thread t
\* when it drops the last handle of s; now is the clock's reading
SpanInnerDrop(t, s, now) ==
    /\ data' = [data EXCEPT ![s] = TakeSlot(data[s])]
    /\ state' = [state EXCEPT ![s] = "Finalized"]
    /\ fin' = [fin EXCEPT ![s] =
                 Some([ thread   |-> t,
                        now      |-> now,
                        snapshot |-> IF IsSome(data[s]) THEN Unwrap(data[s]) ELSE None,
                        provider |-> Provider ])]
    /\ IF IsSome(SpanProcessors(data[s], Provider))
       THEN LET span_data == Unwrap(data[s])
            IN  /\ local' = [local EXCEPT ![t] =
                      IF IsSome(span_data)
                      THEN Some(SetEndTime(Unwrap(span_data), now))
                      ELSE None]
                /\ iter' = [iter EXCEPT ![t] = Unwrap(SpanProcessors(data[s], Provider))]
                /\ pc' = [pc EXCEPT ![t] = "loop"]
                /\ cur' = [cur EXCEPT ![t] = s]
       ELSE UNCHANGED <<local, iter, pc, cur>>

\* drop of one Span handle of s owned by thread t
Release(t, s) ==
    /\ Idle(t)
    /\ held[t][s] > 0
    /\ held' = [held EXCEPT ![t][s] = @ - 1]
    /\ IF IsLastHandle(s)
       THEN \E now \in Times : SpanInnerDrop(t, s, now)
       ELSE UNCHANGED <<data, state, fin, local, iter, pc, cur>>
    /\ UNCHANGED <<lock, mutated, arg, proc, providerAlive, processors, log,
                   created, chain0, sends, last, ended>>

LogEntry(ev, processor, s, span_data) ==
    [ev |-> ev, proc |-> processor, span |-> s, data |-> span_data]

\* one turn of the while loop of SpanInner::drop, up to the call of on_end
LoopNext(t) ==
    /\ pc[t] = "loop"
    /\ IF iter[t] = <<>>
       THEN /\ pc' = [pc EXCEPT ![t] = "idle"]
            /\ cur' = [cur EXCEPT ![t] = NoSpan]
            /\ local' = [local EXCEPT ![t] = None]
            /\ UNCHANGED <<iter, proc, log>>
       ELSE LET processor == Head(iter[t])
                rest == Tail(iter[t])
                span_data == NextSpanData(local[t], rest)
            IN  /\ iter' = [iter EXCEPT ![t] = rest]
                /\ local' = [local EXCEPT ![t] = RemainingSpanData(local[t], rest)]
                /\ IF IsSome(span_data)
                   THEN /\ log' = Append(log, LogEntry("on_end", processor,
                                                       cur[t], span_data))
                        /\ pc' = [pc EXCEPT ![t] = "on_end"]
                        /\ proc' = [proc EXCEPT ![t] = processor]
                   ELSE UNCHANGED <<log, pc, proc>>
                /\ UNCHANGED cur
    /\ UNCHANGED <<data, lock, held, state, mutated, arg, providerAlive, processors,
                   created, chain0, sends, last, ended, fin>>

\* processor.on_end(span_data) returns
OnEndReturn(t) ==
    /\ pc[t] = "on_end"
    /\ log' = Append(log, LogEntry("return", proc[t], cur[t], None))
    /\ pc' = [pc EXCEPT ![t] = "loop"]
    /\ proc' = [proc EXCEPT ![t] = NoProc]
    /\ UNCHANGED <<data, lock, held, state, mutated, cur, arg, local, iter,
                   providerAlive, processors, created, chain0, sends, last, ended, fin>>

\* the TracerProvider is dropped; the tracers of live spans keep a weak
\* reference that no longer upgrades
ProviderDrop ==
    /\ providerAlive
    /\ providerAlive' = FALSE
    /\ UNCHANGED <<data, lock, held, state, mutated, pc, cur, arg, local, iter,
                   proc, processors, log, created, chain0, sends, last, ended, fin>>

----------------------------------------------------------------------------

Next ==
    \/ \E t \in Threads, s \in Spans, name \in EventNames, ts \in EventTimes :
          AddEventWithTimestamp(t, s, name, ts, <<>>)
    \/ \E t \in Threads, s \in Spans, k \in Keys, v \in Values :
          SetAttribute(t, s, <<k, v>>)
    \/ \E t \in Threads, s \in Spans, a \in StatusArgs :
          SetStatus(t, s, a[1], a[2])
    \/ \E t \in Threads : SetStatusMessage(t)
    \/ \E t \in Threads, s \in Spans, n \in Names : UpdateName(t, s, n)
    \/ \E t \in Threads, s \in Spans, ts \in Times : EndWithTimestamp(t, s, ts)
    \/ \E t \in Threads, s \in Spans, u \in Threads : SpanClone(t, s, u)
    \/ \E t \in Threads, s \in Spans : Release(t, s)
    \/ \E t \in Threads : LoopNext(t)
    \/ \E t \in Threads : OnEndReturn(t)
    \/ ProviderDrop

Spec == Init /\ [][Next]_vars

----------------------------------------------------------------------------
(* What the processors saw *)

IsOnEnd(e) == e.ev = "on_end"

\* the calls and returns of on_end for span s, in order
SpanLog(s) == SelectSeq(log, LAMBDA e : e.span = s)

\* the on_end calls for span s, in order
OnEnds(s) == SelectSeq(log, LAMBDA e : e.span = s /\ IsOnEnd(e))

\* how many times on_end of processor p was invoked for span s
Deliveries(s, p) == Len(SelectSeq(log, LAMBDA e : e.span = s /\ IsOnEnd(e) /\ e.proc = p))

\* some thread is inside an operation or the drop of s
Working(s) == \E t \in Threads : cur[t] = s

\* every handle of s is dropped and the drop of the last one has returned
Released(s) == StrongCount(s) = 0 /\ ~Working(s)

\* what SpanInner::drop found for s: the SpanData in the slot, the clock, the
\* processors of the provider
FinSnapshot(s) == Unwrap(Unwrap(fin[s]).snapshot)
FinNow(s) == Unwrap(fin[s]).now
FinProvider(s) == Unwrap(fin[s]).provider
FinChain(s) == Unwrap(FinProvider(s))

\* drop of s ran on a span with data while the provider existed
Exported(s) ==
    IsSome(fin[s]) /\ IsSome(Unwrap(fin[s]).snapshot) /\ IsSome(FinProvider(s))

----------------------------------------------------------------------------
(* C1: for a span created with data whose provider exists when its last    *)
(* handle is dropped, once every handle is dropped (however many there     *)
(* were, on whichever threads) each processor of the provider has had      *)
(* on_end invoked exactly once for the span; and at no time has any        *)
(* processor had it invoked twice.                                         *)
C1_ExactlyOnce ==
    \A s \in Spans :
        /\ \A p \in Procs : Deliveries(s, p) <= 1
        /\ Released(s) =>
              /\ IsSome(fin[s])
              /\ (IsSome(created[s]) /\ IsSome(FinProvider(s))) =>
                    \A i \in 1 .. Len(FinChain(s)) :
                        Deliveries(s, FinChain(s)[i]) = 1

\* two handles, the last one dropped by the thread that did not create the
\* span, and every processor of a full chain reached once
C1_Witness ==
    \E s \in Spans :
        /\ Released(s)
        /\ IsSome(created[s])
        /\ Exported(s)
        /\ Unwrap(fin[s]).thread = "t2"
        /\ Len(FinChain(s)) = MaxProcs
        /\ \A p \in Procs : Deliveries(s, p) = 1

(* C2: on_end is invoked for a span only when no handle of it is left:     *)
(* neither end_with_timestamp nor the drop of a handle that is not the     *)
(* last starts the export.                                                 *)
C2_NoExportWhileHandleAlive ==
    \A s \in Spans :
        StrongCount(s) > 0 =>
            /\ SpanLog(s) = <<>>
            /\ \A t \in Threads : cur[t] = s => pc[t] = "set_status"
            /\ state[s] = "Live"

\* the creating thread has dropped its handle, another handle is alive, the
\* span was ended, and nothing was exported
C2_Witness ==
    \E s \in Spans :
        /\ IsSome(created[s])
        /\ held["t1"][s] = 0
        /\ held["t2"][s] > 0
        /\ IsSome(ended[s])
        /\ providerAlive /\ Len(processors) > 0
        /\ log = <<>>

(* C3 as stated: every SpanData passed to on_end has end_time >=           *)
(* start_time, whatever the start time, the recorded end times and the     *)
(* clock.                                                                  *)
C3_EndNotBeforeStart ==
    \A i \in DOMAIN log :
        IsOnEnd(log[i]) =>
            Unwrap(log[i].data).end_time >= Unwrap(log[i].data).start_time

(* C3, amended: every SpanData passed to on_end has end_time >= start_time *)
(* when the end time in the slot at the last drop was after the start      *)
(* time, or the clock read by the drop is not before the start time.       *)
C3_EndNotBeforeStartUnlessClockBefore ==
    \A i \in DOMAIN log :
        IsOnEnd(log[i]) =>
            LET s == log[i].span
                d == Unwrap(log[i].data)
            IN  (\/ FinSnapshot(s).end_time > FinSnapshot(s).start_time
                 \/ FinNow(s) >= FinSnapshot(s).start_time)
                => d.end_time >= d.start_time

\* an end time before the start time was in the slot, and what was exported
\* has its end time fixed
C3_Witness ==
    \E i \in DOMAIN log :
        /\ IsOnEnd(log[i])
        /\ FinSnapshot(log[i].span).end_time < FinSnapshot(log[i].span).start_time
        /\ Unwrap(log[i].data).end_time >= Unwrap(log[i].data).start_time

(* C4: when the end time in the slot at the last drop is <= the start      *)
(* time, the SpanData passed to on_end has the clock's reading at the drop *)
(* as end time and the start time unchanged.                               *)
C4_FallbackIsNow ==
    \A i \in DOMAIN log :
        IsOnEnd(log[i]) =>
            LET s == log[i].span
                d == Unwrap(log[i].data)
            IN  FinSnapshot(s).end_time <= FinSnapshot(s).start_time
                => /\ d.end_time = FinNow(s)
                   /\ d.start_time = FinSnapshot(s).start_time

\* the end time in the slot was equal to the start time and the clock read
\* something else, which is what was exported
C4_Witness ==
    \E i \in DOMAIN log :
        /\ IsOnEnd(log[i])
        /\ FinSnapshot(log[i].span).end_time = FinSnapshot(log[i].span).start_time
        /\ FinNow(log[i].span) # FinSnapshot(log[i].span).end_time
        /\ Unwrap(log[i].data).end_time = FinNow(log[i].span)

(* C5: when the last end_with_timestamp call gave a timestamp T after the  *)
(* start time, the SpanData passed to on_end has end_time = T.             *)
C5_ExplicitEndKept ==
    \A i \in DOMAIN log :
        IsOnEnd(log[i]) =>
            LET s == log[i].span
                d == Unwrap(log[i].data)
            IN  (IsSome(ended[s]) /\ Unwrap(ended[s]) > d.start_time)
                => d.end_time = Unwrap(ended[s])

\* the span was ended after its start, the clock at the drop read another
\* time, and the end time given was exported
C5_Witness ==
    \E i \in DOMAIN log :
        /\ IsOnEnd(log[i])
        /\ IsSome(ended[log[i].span])
        /\ Unwrap(ended[log[i].span]) > Unwrap(log[i].data).start_time
        /\ FinNow(log[i].span) # Unwrap(ended[log[i].span])
        /\ Unwrap(log[i].data).end_time = Unwrap(ended[log[i].span])

(* C6: the SpanData values passed to the processors for one span are equal *)
(* in every field, and with n >= 2 processors all n have one once the drop *)
(* has returned.                                                           *)
C6_FanOutEqual ==
    \A s \in Spans :
        /\ \A i, j \in DOMAIN log :
              (IsOnEnd(log[i]) /\ IsOnEnd(log[j])
                 /\ log[i].span = s /\ log[j].span = s)
              => log[i].data = log[j].data
        /\ (Released(s) /\ Exported(s) /\ Len(FinChain(s)) >= 2)
              => Len(OnEnds(s)) = Len(FinChain(s))

\* two processors got a SpanData with an event in it and a fixed end time
C6_Witness ==
    \E i, j \in DOMAIN log :
        /\ IsOnEnd(log[i]) /\ IsOnEnd(log[j])
        /\ log[i].span = log[j].span
        /\ log[i].proc # log[j].proc
        /\ Unwrap(log[i].data).message_events # <<>>
        /\ Unwrap(log[i].data).end_time # FinSnapshot(log[i].span).end_time
        /\ log[i].data = log[j].data

(* C7: for one span the processors are called in the order of the chain,   *)
(* on_end of one returns before on_end of the next is called, and once     *)
(* the drop has returned every processor of the chain has been called.     *)
C7_OrderedDelivery ==
    \A s \in Spans :
        LET l == SpanLog(s)
            chain == IF Exported(s) THEN FinChain(s) ELSE <<>>
        IN  /\ Len(l) <= 2 * Len(chain)
            /\ \A k \in 1 .. Len(l) :
                  /\ l[k].proc = chain[(k + 1) \div 2]
                  /\ l[k].ev = IF k % 2 = 1 THEN "on_end" ELSE "return"
            /\ Released(s) => Len(l) = 2 * Len(chain)

\* a full chain was gone through: the last entry is the return of the last
\* processor, the first the call of the first
C7_Witness ==
    \E s \in Spans :
        /\ Exported(s)
        /\ Len(FinChain(s)) = MaxProcs
        /\ Len(SpanLog(s)) = 2 * MaxProcs
        /\ SpanLog(s)[1].proc = FinChain(s)[1]
        /\ SpanLog(s)[2 * MaxProcs].proc = FinChain(s)[MaxProcs]
        /\ SpanLog(s)[2 * MaxProcs].ev = "return"

(* C8: with no processor on the provider, once the last handle of a span   *)
(* with data is dropped the slot is taken and the SpanInner is Finalized,  *)
(* no on_end was invoked, and the drop is at most at the test of its loop  *)
(* with nothing to iterate.                                                *)
C8_EmptyChain ==
    \A s \in Spans :
        (IsSome(created[s]) /\ StrongCount(s) = 0 /\ processors = <<>>) =>
            /\ state[s] = "Finalized"
            /\ IsSome(fin[s])
            /\ data[s] = None
            /\ SpanLog(s) = <<>>
            /\ \A t \in Threads :
                  cur[t] = s => (pc[t] = "loop" /\ iter[t] = <<>>)

\* a span with data, mutated, was dropped while the provider existed with
\* no processor, and the drop has returned
C8_Witness ==
    \E s \in Spans :
        /\ IsSome(created[s])
        /\ mutated[s]
        /\ processors = <<>>
        /\ Released(s)
        /\ Exported(s)
        /\ state[s] = "Finalized"
        /\ log = <<>>

(* C9: when the provider no longer exists at the drop of the last handle,  *)
(* no on_end is invoked for the span, the SpanInner is Finalized and the   *)
(* drop returns at once.                                                   *)
C9_ProviderGone ==
    \A s \in Spans :
        (IsSome(fin[s]) /\ ~IsSome(FinProvider(s))) =>
            /\ SpanLog(s) = <<>>
            /\ state[s] = "Finalized"
            /\ data[s] = None
            /\ ~Working(s)

\* a span with data was dropped after the provider, whose chain was not empty
C9_Witness ==
    \E s \in Spans :
        /\ IsSome(created[s])
        /\ IsSome(fin[s])
        /\ IsSome(Unwrap(fin[s]).snapshot)
        /\ ~IsSome(FinProvider(s))
        /\ Len(processors) > 0
        /\ Released(s)

(* C10: a span created without data stays without data and without a held *)
(* lock whatever is called on its handles, and no on_end is ever invoked   *)
(* for it, also after all its handles are dropped.                         *)
C10_NonRecordingNoop ==
    \A s \in Spans :
        ~IsSome(created[s]) =>
            /\ data[s] = None
            /\ lock[s] = NoThread
            /\ ~Working(s)
            /\ SpanLog(s) = <<>>

\* a span without data had a mutating call and all its handles dropped while
\* the provider existed with processors
C10_Witness ==
    \E s \in Spans :
        /\ ~IsSome(created[s])
        /\ mutated[s]
        /\ IsSome(ended[s])
        /\ Released(s)
        /\ IsSome(fin[s])
        /\ IsSome(FinProvider(s))
        /\ Len(FinChain(s)) > 0
        /\ log = <<>>

----------------------------------------------------------------------------
\* the SpanData in the slot of a span that has one
LiveData(s) == Unwrap(Unwrap(data[s]))
HasLiveData(s) == IsSome(data[s]) /\ IsSome(Unwrap(data[s]))

\* (status_code, status_message)
StatusOf(d) == <<d.status_code, d.status_message>>

(* C11: while a handle of a span exists, is_recording() is true exactly    *)
(* when the span was created with data, whatever was called on it before   *)
(* and whatever another thread is in the middle of.                        *)
C11_IsRecordingIffCreatedWithData ==
    \A s \in Spans :
        StrongCount(s) > 0 => (IsRecording(s) <=> IsSome(created[s]))

\* a span with data that was ended, with a set_status in progress on one
\* thread while the other holds a handle, is recording
C11_Witness ==
    \E s \in Spans :
        /\ IsSome(created[s])
        /\ IsSome(ended[s])
        /\ pc["t1"] = "set_status" /\ cur["t1"] = s
        /\ held["t2"][s] > 0
        /\ IsRecording(s)

(* C12: while a handle of a span exists, span_context() is the             *)
(* SpanContext the span's data was created with (that of init(), whose     *)
(* ids are 0, or one with valid ids), whatever was called on the span;     *)
(* for a span without data it is the invalid SpanContext.                  *)
C12_SpanContextIsCreatedOne ==
    \A s \in Spans :
        StrongCount(s) > 0 =>
            SpanContext(s) = IF IsSome(created[s])
                             THEN Unwrap(created[s]).span_context
                             ELSE InvalidSpanContext

\* a span with data whose name, status, attributes, events and end time
\* were all written still has the valid SpanContext it was created with
C12_Witness ==
    \E s \in Spans :
        /\ StrongCount(s) > 0
        /\ HasLiveData(s)
        /\ IsSome(last[s].name) /\ IsSome(last[s].status) /\ IsSome(ended[s])
        /\ LiveData(s).attributes # <<>>
        /\ LiveData(s).message_events # <<>>
        /\ SpanContext(s) = ValidSpanContext
        /\ SpanContext(s) # InvalidSpanContext

(* C15: whenever the mutex of a span is free, the (status_code,            *)
(* status_message) of its data is the pair of one set_status call or the   *)
(* initial pair, never the code of one call with the message of another;   *)
(* the same holds of every SpanData passed to on_end; and at most one      *)
(* thread is inside set_status, holding the mutex.                         *)
C15_StatusNeverTorn ==
    \A s \in Spans :
        /\ (HasLiveData(s) /\ lock[s] = NoThread) =>
              StatusOf(LiveData(s)) \in StatusArgs \cup {<<"Unset", "">>}
        /\ \A i \in DOMAIN log :
              (IsOnEnd(log[i]) /\ log[i].span = s) =>
                  StatusOf(Unwrap(log[i].data)) \in StatusArgs \cup {<<"Unset", "">>}
        /\ \A t \in Threads :
              (pc[t] = "set_status" /\ cur[t] = s) => lock[s] = t

\* thread t1 is between the two writes of a set_status that follows another
\* one (the code is new, the message old), and t2 holds a handle
C15_Witness ==
    \E s \in Spans :
        /\ pc["t1"] = "set_status" /\ cur["t1"] = s
        /\ lock[s] = "t1"
        /\ held["t2"][s] > 0
        /\ HasLiveData(s)
        /\ LiveData(s).status_message # ""
        /\ StatusOf(LiveData(s)) \notin StatusArgs

(* C16: once end_with_timestamp was called on a span, no call changes the  *)
(* name, attributes, events or status of its data.                         *)
C16_NoChangeAfterEnd ==
    [][\A s \in Spans :
          (IsSome(ended[s]) /\ HasLiveData(s) /\ IsSome(data'[s]))
          => /\ Unwrap(Unwrap(data'[s])).message_events = LiveData(s).message_events
             /\ Unwrap(Unwrap(data'[s])).attributes = LiveData(s).attributes
             /\ Unwrap(Unwrap(data'[s])).status_code = LiveData(s).status_code
             /\ Unwrap(Unwrap(data'[s])).status_message = LiveData(s).status_message
             /\ Unwrap(Unwrap(data'[s])).name = LiveData(s).name]_vars

(* C17: once end_with_timestamp was called on a span, a later              *)
(* end_with_timestamp does not change the end time of its data.            *)
C17_EndOnlyOnce ==
    [][\A s \in Spans :
          (IsSome(ended[s]) /\ HasLiveData(s) /\ IsSome(data'[s]))
          => Unwrap(Unwrap(data'[s])).end_time = LiveData(s).end_time]_vars

(* C18: once end_with_timestamp was called on a span with data,            *)
(* is_recording() on a handle of it is false.                              *)
C18_NotRecordingAfterEnd ==
    \A s \in Spans :
        (StrongCount(s) > 0 /\ IsSome(created[s]) /\ IsSome(ended[s]))
        => ~IsRecording(s)

----------------------------------------------------------------------------
(* The provider's processors change while a span is alive *)

\* processor p is added at the end of the provider's processors
RegisterProcessor(p) ==
    /\ providerAlive
    /\ Len(processors) < MaxProcs
    /\ \A i \in DOMAIN processors : processors[i] # p
    /\ processors' = Append(processors, p)
    /\ UNCHANGED <<data, lock, held, state, mutated, pc, cur, arg, local, iter,
                   proc, providerAlive, log, created, chain0, sends,
                   last, ended, fin>>

\* processor p is taken out of the provider's processors
UnregisterProcessor(p) ==
    /\ providerAlive
    /\ \E i \in DOMAIN processors : processors[i] = p
    /\ processors' = SelectSeq(processors, LAMBDA q : q # p)
    /\ UNCHANGED <<data, lock, held, state, mutated, pc, cur, arg, local, iter,
                   proc, providerAlive, log, created, chain0, sends,
                   last, ended, fin>>

NextChain ==
    \/ \E t \in Threads, s \in Spans, u \in Threads : SpanClone(t, s, u)
    \/ \E t \in Threads, s \in Spans : Release(t, s)
    \/ \E t \in Threads : LoopNext(t)
    \/ \E t \in Threads : OnEndReturn(t)
    \/ \E p \in Procs : RegisterProcessor(p)
    \/ \E p \in Procs : UnregisterProcessor(p)

SpecChain == Init /\ [][NextChain]_vars

\* the processors of a sequence of log entries
ProcsOf(entries) == [i \in DOMAIN entries |-> entries[i].proc]

IsPrefix(a, b) == Len(a) <= Len(b) /\ \A i \in DOMAIN a : a[i] = b[i]

(* C13: the processors whose on_end is called for a span are those the     *)
(* provider has when the last handle is dropped, in that order: all of     *)
(* them once the drop has returned, a prefix of them before; the           *)
(* processors the provider had when the span was created play no part.     *)
C13_ChainReadAtFinalization ==
    \A s \in Spans :
        Exported(s) =>
            /\ IsPrefix(ProcsOf(OnEnds(s)), FinChain(s))
            /\ Released(s) => ProcsOf(OnEnds(s)) = FinChain(s)

\* a processor registered after the creation of the span got the data, and
\* one that was registered at the creation and taken out before the last
\* drop did not
C13_Witness ==
    \E s \in Spans :
        /\ Exported(s) /\ Released(s)
        /\ \E p \in Procs :
              /\ \A i \in DOMAIN chain0 : chain0[i] # p
              /\ \E i \in DOMAIN FinChain(s) : FinChain(s)[i] = p
              /\ Deliveries(s, p) = 1
        /\ \E q \in Procs :
              /\ \E i \in DOMAIN chain0 : chain0[i] = q
              /\ \A i \in DOMAIN FinChain(s) : FinChain(s)[i] # q
              /\ Deliveries(s, q) = 0

----------------------------------------------------------------------------
(* Names, statuses and attributes written through several handles *)

\* a span with data, one handle, nothing called yet
InitMut ==
    /\ \E start \in Times, end \in Times :
          created = [s \in AllSpans |->
                       IF s \in Spans
                       THEN Some(InitialSpanData(start, end))
                       ELSE None]
    /\ held = [t \in Threads |->
                 [s \in AllSpans |-> IF t = "t1" /\ s \in Spans THEN 1 ELSE 0]]
    /\ \E n \in 1 .. MaxProcs : processors = [i \in 1 .. n |-> i]
    /\ InitRest

NextMut ==
    \/ \E t \in Threads, s \in Spans, k \in AllKeys, v \in Values :
          SetAttribute(t, s, <<k, v>>)
    \/ \E t \in Threads, s \in Spans, a \in StatusArgs :
          SetStatus(t, s, a[1], a[2])
    \/ \E t \in Threads : SetStatusMessage(t)
    \/ \E t \in Threads, s \in Spans, n \in AllNames : UpdateName(t, s, n)
    \/ \E t \in Threads, s \in Spans, u \in Threads : SpanClone(t, s, u)
    \/ \E t \in Threads, s \in Spans : Release(t, s)
    \/ \E t \in Threads : LoopNext(t)
    \/ \E t \in Threads : OnEndReturn(t)

SpecMut == InitMut /\ [][NextMut]_vars

\* the value the attributes of d hold for key k
GetAttribute(d, k) ==
    LET hits == SelectSeq(d.attributes, LAMBDA kv : kv[1] = k)
    IN  IF hits = <<>> THEN None ELSE Some(hits[1][2])

\* d has the name of the last update_name and the status of the last
\* set_status on s, or those s was created with
LastNameAndStatus(d, s) ==
    /\ d.name = IF IsSome(last[s].name)
                THEN Unwrap(last[s].name)
                ELSE Unwrap(created[s]).name
    /\ StatusOf(d) = IF IsSome(last[s].status)
                     THEN Unwrap(last[s].status)
                     ELSE StatusOf(Unwrap(created[s]))

\* d has, for every key, the value of the last set_attribute on s
LastAttributeOfEveryKey(d, s) ==
    \A k \in AllKeys : GetAttribute(d, k) = last[s].attrs[k]

\* d has, for every key it holds, the value of the last set_attribute on s
LastAttributeOfHeldKeys(d, s) ==
    /\ \A k \in AllKeys :
          IsSome(GetAttribute(d, k)) => GetAttribute(d, k) = last[s].attrs[k]
    /\ \A i, j \in DOMAIN d.attributes :
          d.attributes[i][1] = d.attributes[j][1] => i = j

\* a and b are equal in every field other than end_time
EqualButEndTime(a, b) == [a EXCEPT !.end_time = b.end_time] = b

(* C14 as stated: whenever the mutex of a span with data is free, its      *)
(* data has the name of the last update_name, the status of the last       *)
(* set_status and for every key the value of the last set_attribute; so    *)
(* has the SpanData passed to on_end, which equals the data found at the   *)
(* last drop in every field other than end_time.                           *)
C14_LastWriteWins ==
    \A s \in Spans :
        /\ (HasLiveData(s) /\ lock[s] = NoThread) =>
              /\ LastNameAndStatus(LiveData(s), s)
              /\ LastAttributeOfEveryKey(LiveData(s), s)
        /\ \A i \in DOMAIN log :
              (IsOnEnd(log[i]) /\ log[i].span = s) =>
                  /\ LastNameAndStatus(Unwrap(log[i].data), s)
                  /\ LastAttributeOfEveryKey(Unwrap(log[i].data), s)
                  /\ EqualButEndTime(Unwrap(log[i].data), FinSnapshot(s))

(* C14: whenever the mutex of a span with data is free, its data has the   *)
(* name of the last update_name, the status of the last set_status and,    *)
(* for every key its attributes still hold, the value of the last          *)
(* set_attribute of that key; so has the SpanData passed to on_end, which  *)
(* equals the data found at the last drop in every field other than        *)
(* end_time.                                                               *)
C14_LastWriteWinsForHeldKeys ==
    \A s \in Spans :
        /\ (HasLiveData(s) /\ lock[s] = NoThread) =>
              /\ LastNameAndStatus(LiveData(s), s)
              /\ LastAttributeOfHeldKeys(LiveData(s), s)
        /\ \A i \in DOMAIN log :
              (IsOnEnd(log[i]) /\ log[i].span = s) =>
                  /\ LastNameAndStatus(Unwrap(log[i].data), s)
                  /\ LastAttributeOfHeldKeys(Unwrap(log[i].data), s)
                  /\ EqualButEndTime(Unwrap(log[i].data), FinSnapshot(s))

\* every handle is dropped after update_name, set_status and set_attribute
\* of two keys; on_end got the last name and status, the attribute of one
\* key but none of the other, and an end time set by the drop
C14_Witness ==
    \E s \in Spans :
        /\ Released(s) /\ Exported(s) /\ OnEnds(s) # <<>>
        /\ IsSome(last[s].name) /\ IsSome(last[s].status)
        /\ \A k \in AllKeys : IsSome(last[s].attrs[k])
        /\ LET d == Unwrap(OnEnds(s)[1].data)
           IN  /\ d.name = Unwrap(last[s].name)
               /\ StatusOf(d) = Unwrap(last[s].status)
               /\ \E k \in AllKeys : GetAttribute(d, k) = last[s].attrs[k]
               /\ d.end_time # FinSnapshot(s).end_time

----------------------------------------------------------------------------
(* HttpClient::send of the three clients *)

Clients == {"reqwest", "reqwest_blocking", "surf"}

\* the status codes of the responses
HttpStatuses == {199, 200, 299, 300, 404, 503}

\* Result<ExportResult, Box<dyn Error>>
Ok(result) == <<"Ok", result>>
Err(error) == <<"Err", error>>

\* StatusCode::is_success
IsSuccess(status) == 200 <= status /\ status <= 299

\* a classification that lets the caller retry after a server error
ExportResultOf_RetryServerErrors(status) ==
    IF IsSuccess(status) THEN "Success"
    ELSE IF status >= 500 THEN "FailedRetryable" ELSE "FailedNotRetryable"

\* if result.status().is_success() { Success } else { FailedNotRetryable }
ExportResultOf(status) ==
    IF IsSuccess(status) THEN "Success" ELSE "FailedNotRetryable"

\* <reqwest::Client as HttpClient>::send: convertible tells whether
\* request.try_into() gives a request, response is the status of the
\* response, or None when execute fails
ReqwestSend(convertible, response) ==
    IF ~convertible THEN Err("conversion")
    ELSE IF ~IsSome(response) THEN Err("transport")
    ELSE Ok(ExportResultOf(Unwrap(response)))

\* <reqwest::blocking::Client as HttpClient>::send
ReqwestBlockingSend(convertible, response) ==
    IF ~convertible THEN Err("conversion")
    ELSE IF ~IsSome(response) THEN Err("transport")
    ELSE Ok(ExportResultOf(Unwrap(response)))

\* <surf::Client as HttpClient>::send: convertible tells whether the uri
\* of the request parses
SurfSend(convertible, response) ==
    IF ~convertible THEN Err("conversion")
    ELSE IF ~IsSome(response) THEN Err("transport")
    ELSE Ok(ExportResultOf(Unwrap(response)))

HttpClientSend(client, convertible, response) ==
    CASE client = "reqwest"          -> ReqwestSend(convertible, response)
      [] client = "reqwest_blocking" -> ReqwestBlockingSend(convertible, response)
      [] client = "surf"             -> SurfSend(convertible, response)

\* send of reqwest::Client and of surf::Client is suspended at the .await
\* of execute / send when the request was converted and the future of the
\* transport is not ready at the first poll; ready tells whether the
\* transport has its answer at once
SuspendsAtAwait(client, convertible, ready) ==
    client \in {"reqwest", "surf"} /\ convertible /\ ~ready

\* send of reqwest::blocking::Client has no .await: the calling thread
\* waits inside execute until the transport has its answer
BlocksInExecute(client, convertible, ready) ==
    client = "reqwest_blocking" /\ convertible /\ ~ready

\* what the first poll of send returns: nothing yet when it is suspended;
\* a request that cannot be converted returns before the transport is used
FirstPoll(client, convertible, ready, response) ==
    IF SuspendsAtAwait(client, convertible, ready)
    THEN None
    ELSE Some(HttpClientSend(client, convertible, response))

\* send is called and polled once; response is what the transport will
\* give.  The send has no result yet while it is suspended or while its
\* thread is still inside execute
SendCall(client, convertible, ready, response) ==
    /\ Len(sends) < MaxSends
    /\ sends' = Append(sends, [ client      |-> client,
                                convertible |-> convertible,
                                response    |-> response,
                                result      |->
                                    IF BlocksInExecute(client, convertible, ready)
                                    THEN None
                                    ELSE FirstPoll(client, convertible, ready,
                                                   response) ])
    /\ UNCHANGED <<data, lock, held, state, mutated, pc, cur, arg, local, iter,
                   proc, providerAlive, processors, log, created, chain0,
                   last, ended, fin>>

\* the transport of send i has its answer: the suspended send is polled
\* again, or execute returns to the waiting thread, and send returns
SendResume(i) ==
    /\ i \in DOMAIN sends
    /\ sends[i].result = None
    /\ sends' = [sends EXCEPT ![i].result =
                    Some(HttpClientSend(sends[i].client, sends[i].convertible,
                                        sends[i].response))]
    /\ UNCHANGED <<data, lock, held, state, mutated, pc, cur, arg, local, iter,
                   proc, providerAlive, processors, log, created, chain0,
                   last, ended, fin>>

\* no span exists
InitHttp ==
    /\ created = [s \in AllSpans |-> None]
    /\ held = [t \in Threads |-> [s \in AllSpans |-> 0]]
    /\ processors = <<>>
    /\ InitRest

NextHttp ==
    \/ \E client \in Clients, convertible \in BOOLEAN, ready \in BOOLEAN,
          response \in {None} \cup {Some(status) : status \in HttpStatuses} :
           SendCall(client, convertible, ready, response)
    \/ \E i \in 1 .. MaxSends : SendResume(i)

SpecHttp == InitHttp /\ [][NextHttp]_vars

(* C20: a send of any client that has returned gave Ok(Success) for a      *)
(* response with a success status (2xx), Ok(FailedNotRetryable) for a      *)
(* response with any other status, never FailedRetryable, and Err when     *)
(* the request cannot be converted or the transport fails, whether the     *)
(* transport answered at once or the send waited for it, and whatever      *)
(* other sends started or returned meanwhile; only a send whose request    *)
(* was converted ever waits.                                               *)
C20_SendMapping ==
    \A i \in DOMAIN sends :
        LET e == sends[i]
        IN  /\ ~IsSome(e.result) => e.convertible
            /\ IsSome(e.result) =>
                  LET result == Unwrap(e.result)
                  IN  /\ result # Ok("FailedRetryable")
                      /\ (e.convertible /\ IsSome(e.response)) =>
                            /\ (Unwrap(e.response) \in 200 .. 299) =>
                                  result = Ok("Success")
                            /\ (Unwrap(e.response) \notin 200 .. 299) =>
                                  result = Ok("FailedNotRetryable")
                      /\ (~e.convertible \/ ~IsSome(e.response)) =>
                            /\ result[1] = "Err"
                            /\ result[2] = IF e.convertible THEN "transport"
                                           ELSE "conversion"

\* a send of reqwest::Client that got a server error has returned
\* FailedNotRetryable, and a send of another client called after it,
\* whose transport failed, has returned Err
C20_Witness ==
    \E i \in DOMAIN sends, j \in DOMAIN sends :
        /\ i < j
        /\ sends[i].client = "reqwest"
        /\ sends[i].convertible /\ sends[i].response = Some(503)
        /\ sends[i].result = Some(Ok("FailedNotRetryable"))
        /\ sends[j].client # sends[i].client
        /\ sends[j].convertible /\ sends[j].response = None
        /\ sends[j].result = Some(Err("transport"))

----------------------------------------------------------------------------
(* What one call changes *)

\* the fields of SpanData
SpanDataFields ==
    { "span_context", "parent_span_id", "span_kind", "name", "start_time",
      "end_time", "attributes", "message_events", "links", "status_code",
      "status_message", "resource", "instrumentation_lib" }

\* the fields in which a and b differ
ChangedFields(a, b) == {f \in SpanDataFields : a[f] # b[f]}

\* b is what is left of a after its first items are dropped
IsSuffix(b, a) ==
    /\ Len(b) <= Len(a)
    /\ \A i \in DOMAIN b : b[i] = a[i + Len(a) - Len(b)]

\* this step leaves a span with data with data, changes no field of it
\* outside fields, and changes the data of no other span
OnlyFieldsChange(s, fields) ==
    /\ HasLiveData(s) =>
          /\ IsSome(data'[s]) /\ IsSome(Unwrap(data'[s]))
          /\ ChangedFields(LiveData(s), Unwrap(Unwrap(data'[s]))) \subseteq fields
    /\ \A o \in AllSpans : o # s => data'[o] = data[o]

\* a span with or without data that starts and ends at time 0, with the
\* SpanContext of init() or a valid one, of a provider without processors
InitFrame ==
    /\ \E recording \in BOOLEAN, span_context \in SpanContexts :
          created = [s \in AllSpans |->
                       IF recording /\ s \in Spans
                       THEN Some(SpanDataOf(span_context, 0, 0))
                       ELSE None]
    /\ held = [t \in Threads |->
                 [s \in AllSpans |-> IF t = "t1" /\ s \in Spans THEN 1 ELSE 0]]
    /\ processors = <<>>
    /\ InitRest

NextFrame ==
    \/ \E t \in Threads, s \in Spans, name \in EventNames, ts \in EventTimes :
          AddEventWithTimestamp(t, s, name, ts, <<>>)
    \/ \E t \in Threads, s \in Spans, k \in AllKeys, v \in Values :
          SetAttribute(t, s, <<k, v>>)
    \/ \E t \in Threads, s \in Spans, a \in StatusArgs :
          SetStatus(t, s, a[1], a[2])
    \/ \E t \in Threads : SetStatusMessage(t)
    \/ \E t \in Threads, s \in Spans, n \in Names : UpdateName(t, s, n)
    \/ \E t \in Threads, s \in Spans, ts \in Times : EndWithTimestamp(t, s, ts)
    \/ \E t \in Threads, s \in Spans, u \in Threads : SpanClone(t, s, u)

SpecFrame == InitFrame /\ [][NextFrame]_vars

(* C21: every call on a span with data changes only its own fields of the  *)
(* data, to the values given: update_name the name; set_status the         *)
(* status_code, then the status_message; set_attribute the attributes,     *)
(* which then hold the value for the key; add_event_with_timestamp the     *)
(* message_events, whose last item is then the new event, the items        *)
(* before it being items the queue already had, in order;                  *)
(* end_with_timestamp the end_time.  No call changes span_context,         *)
(* parent_span_id, span_kind, start_time, links, resource or               *)
(* instrumentation_lib.                                                    *)
C21_FrameEffect ==
    [][/\ \A t \in Threads, s \in AllSpans, n \in AllNames :
            UpdateName(t, s, n) =>
                /\ OnlyFieldsChange(s, {"name"})
                /\ HasLiveData(s) => Unwrap(Unwrap(data'[s])).name = n
       /\ \A t \in Threads, s \in AllSpans, a \in StatusArgs :
            SetStatus(t, s, a[1], a[2]) =>
                /\ OnlyFieldsChange(s, {"status_code"})
                /\ HasLiveData(s) => Unwrap(Unwrap(data'[s])).status_code = a[1]
       /\ \A t \in Threads :
            SetStatusMessage(t) =>
                /\ OnlyFieldsChange(cur[t], {"status_message"})
                /\ StatusOf(Unwrap(Unwrap(data'[cur[t]]))) = arg[t]
       /\ \A t \in Threads, s \in AllSpans, k \in AllKeys, v \in Values :
            SetAttribute(t, s, <<k, v>>) =>
                /\ OnlyFieldsChange(s, {"attributes"})
                /\ HasLiveData(s) =>
                      GetAttribute(Unwrap(Unwrap(data'[s])), k) = Some(v)
       /\ \A t \in Threads, s \in AllSpans, name \in EventNames, ts \in Times :
            AddEventWithTimestamp(t, s, name, ts, <<>>) =>
                /\ OnlyFieldsChange(s, {"message_events"})
                /\ HasLiveData(s) =>
                      LET new == Unwrap(Unwrap(data'[s])).message_events
                      IN  /\ new # <<>>
                          /\ new[Len(new)] = Event(name, ts, <<>>)
                          /\ IsSuffix(SubSeq(new, 1, Len(new) - 1),
                                      LiveData(s).message_events)
       /\ \A t \in Threads, s \in AllSpans, ts \in Times :
            EndWithTimestamp(t, s, ts) =>
                /\ OnlyFieldsChange(s, {"end_time"})
                /\ HasLiveData(s) => Unwrap(Unwrap(data'[s])).end_time = ts
      ]_vars

\* after calls of all five operations, every field they write differs from
\* the one the span was created with, and every other field is the same
C21_Witness ==
    \E s \in Spans :
        /\ HasLiveData(s) /\ IsSome(created[s]) /\ lock[s] = NoThread
        /\ IsSome(last[s].name) /\ IsSome(last[s].status) /\ IsSome(ended[s])
        /\ \E k \in AllKeys : IsSome(last[s].attrs[k])
        /\ ChangedFields(Unwrap(created[s]), LiveData(s)) =
              { "name", "status_code", "status_message", "attributes",
                "message_events", "end_time" }

----------------------------------------------------------------------------
(* Threads that call and drop handles of two spans, scheduled fairly *)

\* two spans with data of one provider with one processor, each owned by
\* its own thread
InitLock ==
    /\ created = [s \in AllSpans |-> Some(InitialSpanData(0, 0))]
    /\ held = [t \in Threads |->
                 [s \in AllSpans |->
                    IF (t = "t1" /\ s \in Spans) \/ (t # "t1" /\ s \notin Spans)
                    THEN 1 ELSE 0]]
    /\ processors = <<1>>
    /\ InitRest

NextLock ==
    \/ \E t \in Threads, s \in AllSpans, a \in StatusArgs :
          SetStatus(t, s, a[1], a[2])
    \/ \E t \in Threads : SetStatusMessage(t)
    \/ \E t \in Threads, s \in AllSpans, n \in Names : UpdateName(t, s, n)
    \/ \E t \in Threads, s \in AllSpans, u \in Threads : SpanClone(t, s, u)
    \/ \E t \in Threads, s \in AllSpans : Release(t, s)
    \/ \E t \in Threads : LoopNext(t)
    \/ \E t \in Threads : OnEndReturn(t)

\* a thread that is inside a closure, the loop of drop or on_end goes on
FairLock ==
    \A t \in Threads :
        /\ WF_vars(SetStatusMessage(t))
        /\ WF_vars(LoopNext(t))
        /\ WF_vars(OnEndReturn(t))

SpecLock == InitLock /\ [][NextLock]_vars /\ FairLock

\* the mutex of a span is held by a thread inside a closure on that span,
\* and by no thread that is inside drop or on_end
LockHeldInClosureOnly ==
    /\ \A s \in AllSpans :
          lock[s] # NoThread => (pc[lock[s]] = "set_status" /\ cur[lock[s]] = s)
    /\ \A t \in Threads :
          pc[t] \in {"loop", "on_end"} =>
              /\ lock[cur[t]] = NoThread
              /\ \A s \in AllSpans : lock[s] # t

\* a thread with a handle of a span whose mutex is free can call, whatever
\* the mutexes of the other spans
WaitsOnOwnLockOnly ==
    \A t \in Threads, s \in AllSpans, n \in Names :
        (Idle(t) /\ held[t][s] > 0 /\ lock[s] = NoThread) =>
            ENABLED UpdateName(t, s, n)

\* a thread inside a closure, drop or on_end has a step to take
NoThreadStuck ==
    \A t \in Threads :
        ~Idle(t) => ENABLED (SetStatusMessage(t) \/ LoopNext(t) \/ OnEndReturn(t))

(* C22: with threads scheduled fairly that call and drop handles of the    *)
(* same and of different spans, the mutex of a span is held only by a      *)
(* thread inside a closure on that span and never while drop iterates or   *)
(* on_end runs; a call waits for the mutex of its own span only; no        *)
(* thread inside a call or a drop is ever without a step; and every held   *)
(* mutex is released and every call and drop in progress completes.        *)
C22_LockProgress ==
    /\ [](LockHeldInClosureOnly /\ WaitsOnOwnLockOnly /\ NoThreadStuck)
    /\ \A s \in AllSpans : (lock[s] # NoThread) ~> (lock[s] = NoThread)
    /\ \A t \in Threads : (~Idle(t)) ~> Idle(t)

\* one thread holds the mutex of a span inside set_status while the other,
\* which holds a handle of that span too, is inside on_end for another span
C22_Witness ==
    \E t \in Threads, u \in Threads, s \in AllSpans, o \in AllSpans :
        /\ t # u /\ s # o
        /\ lock[s] = t /\ pc[t] = "set_status"
        /\ held[u][s] > 0
        /\ pc[u] = "on_end" /\ cur[u] = o
        /\ lock[o] = NoThread

====
